---- MODULE Spec2Model ----
(***************************************************************************)
(* Exhaustive search over Cantor space (src/main.cc): the ForSome engine,  *)
(* the combinators built on it (ForEvery, ForEvery2, Equal, Modulus) and   *)
(* the per-thread reentrancy guard.                                        *)
(*                                                                         *)
(* A predicate is kept as the tree of the reads it performs: a node is     *)
(* either a returned value (a bit, or std::nullopt), a read of a stream    *)
(* position with one subtree per outcome of the read (false, true,         *)
(* undetermined), or a call of ForSome with one subtree per result.  The   *)
(* ASSIGN_OR_RETURN macro is the bind of that tree: an undetermined result *)
(* is returned as it is, a definite one continues in the matching subtree. *)
(***************************************************************************)
EXTENDS Integers, Sequences, FiniteSets, TLC

\* Generated predicates read positions 0 .. MaxPos-1 of their streams.
MaxPos == 2
\* Generated predicates hold at most MaxReads read nodes.
MaxReads == 2

Threads == {"t1", "t2"}

VARIABLES find_is_active, aborted, script, ip, least_i, out, stack,
          halved, rounds, trials

\* halved, rounds and trials are not state of the program.  halved holds the
\* places of a script whose call runs the engine with half the trials per
\* round (empty but where that engine is compared with the code's).  rounds
\* and trials are history: rounds[t] holds, for each ForSome call t has made,
\* the snapshots L its rounds began with; trials[t] holds a record of each
\* trial run so far in the round t is in.
vars == <<find_is_active, aborted, script, ip, least_i, out, stack,
          halved, rounds, trials>>

(***************************************************************************)
(* BitSet (main.cc 39-66): rep_ is a vector<bool>, position idx is held at *)
(* rep_[idx+1] because sequences are 1-based; size_ is the counter.        *)
(***************************************************************************)
EmptyBitSet == [size_ |-> 0, rep_ |-> <<>>]

\* n bits, all false.
RECURSIVE AllFalse(_)
AllFalse(n) == IF n = 0 THEN <<>> ELSE Append(AllFalse(n - 1), FALSE)

\* std::vector<bool>::resize(n, false)
Resize(v, n) ==
  IF n <= Len(v) THEN SubSeq(v, 1, n) ELSE v \o AllFalse(n - Len(v))

\* A Clear that clears nothing.
ClearNothing(bs) == bs

\* Clear() is rep_.clear(); size_ is left as it is.
Clear(bs) == [bs EXCEPT !.rep_ = <<>>]

Insert(bs, idx) ==
  LET rep == IF idx >= Len(bs.rep_) THEN Resize(bs.rep_, idx + 1) ELSE bs.rep_
  IN  [size_ |-> bs.size_ + (IF rep[idx + 1] THEN 0 ELSE 1),
       rep_  |-> [rep EXCEPT ![idx + 1] = TRUE]]

Contains(bs, idx) == idx < Len(bs.rep_) /\ bs.rep_[idx + 1]

\* The positions ForEach hands to its callback, in the order it visits them.
ForEach(bs) ==
  SelectSeq([j \in 1..Len(bs.rep_) |-> j - 1], LAMBDA n : bs.rep_[n + 1])

size(bs) == bs.size_

(***************************************************************************)
(* Streams.  A predicate names the streams it is given by parameter number *)
(* (0 is the first argument); a StridedBitStream wraps another stream.     *)
(***************************************************************************)
Param(n) == [kind |-> "param", n |-> n]

StridedBitStream(source, stride, offset) ==
  [kind |-> "strided", source |-> source, stride |-> stride, offset |-> offset]

\* A strided view that forgets its offset.
StridedGetNoOffset(idx, stride, offset) == idx * stride

\* StridedBitStream::Get forwards to source_->Get of this position.
StridedGetIndex(idx, stride, offset) == idx * stride + offset

\* The position of the parameter stream that stream s reads for Get(idx).
RECURSIVE SourceIndex(_, _)
SourceIndex(s, idx) ==
  IF s.kind = "param" THEN idx
  ELSE SourceIndex(s.source, StridedGetIndex(idx, s.stride, s.offset))

RECURSIVE SourceParam(_)
SourceParam(s) == IF s.kind = "param" THEN s.n ELSE SourceParam(s.source)

\* The element of a one-element set.
The(S) == CHOOSE x \in S : TRUE

(***************************************************************************)
(* Predicates as trees.                                                    *)
(***************************************************************************)
Ret(v) == [k |-> "ret", v |-> v]

\* `return std::nullopt`.
Nullopt == [k |-> "nullopt"]

\* The computation s->Get(idx): an optional<Bit>.
StreamGet(s, idx) ==
  [k |-> "get", s |-> s, idx |-> idx,
   f |-> Ret(FALSE), t |-> Ret(TRUE), u |-> Nullopt]

\* The computation ForSome(p) made from inside a predicate.
ForSomeCall(p) == [k |-> "call", p |-> p, f |-> Ret(FALSE), t |-> Ret(TRUE)]

\* ASSIGN_OR_RETURN(T, var, expr); rest: expr's undetermined result is
\* returned as it is, a definite one is bound to var and rest[var] runs.
\* (Here and below an argument is bound through a one-element set so that
\* it is computed once, not once for each use.)
RECURSIVE ASSIGN_OR_RETURN(_, _)
ASSIGN_OR_RETURN(expr, rest) ==
  The({IF tmp.k = "ret" THEN rest[tmp.v]
       ELSE IF tmp.k = "nullopt" THEN Nullopt
       ELSE IF tmp.k = "call"
       THEN [tmp EXCEPT !.f = ASSIGN_OR_RETURN(tmp.f, rest),
                        !.t = ASSIGN_OR_RETURN(tmp.t, rest)]
       ELSE [tmp EXCEPT !.f = ASSIGN_OR_RETURN(tmp.f, rest),
                        !.t = ASSIGN_OR_RETURN(tmp.t, rest),
                        !.u = ASSIGN_OR_RETURN(tmp.u, rest)] : tmp \in {expr}})

\* Calling a predicate with actual streams args (args[n+1] for parameter n).
RECURSIVE Invoke(_, _)
Invoke(p, args) ==
  The({IF q.k \in {"ret", "nullopt"} THEN q
       ELSE IF q.k = "call"
       THEN [q EXCEPT !.f = Invoke(q.f, args), !.t = Invoke(q.t, args)]
       ELSE [q EXCEPT !.s = args[SourceParam(q.s) + 1],
                      !.f = Invoke(q.f, args), !.t = Invoke(q.t, args),
                      !.u = Invoke(q.u, args)] :
       q \in {p}})

\* Bit to integer, as C++ promotes bool in arithmetic.
N(b) == IF b THEN 1 ELSE 0

FuncF(a) ==
  ASSIGN_OR_RETURN(StreamGet(a, 4), [t0 \in BOOLEAN |->
  ASSIGN_OR_RETURN(StreamGet(a, N(t0) * 7), [t1 \in BOOLEAN |->
  ASSIGN_OR_RETURN(StreamGet(a, 7), [t2 \in BOOLEAN |->
  Ret(N(t0) * 7 + N(t1) * N(t2) # 0)])])])

FuncG(a) ==
  ASSIGN_OR_RETURN(StreamGet(a, 4), [t0 \in BOOLEAN |->
  ASSIGN_OR_RETURN(StreamGet(a, 7), [t1 \in BOOLEAN |->
  ASSIGN_OR_RETURN(StreamGet(a, N(t0) + 11 * N(t1)), [t2 \in BOOLEAN |->
  Ret(N(t2) * N(t0) # 0)])])])

(***************************************************************************)
(* The combinators (main.cc 200-290), as the predicate each hands to       *)
(* ForSome and what it makes of ForSome's result.                          *)
(***************************************************************************)
inverse_pred(pred) ==
  ASSIGN_OR_RETURN(pred, [val \in BOOLEAN |-> Ret(~val)])

\* A ForEvery that hands on ForSome's result as it is.
ForEveryNotNegated(found) == found

\* ForEvery returns !ForSome(inverse_pred).
ForEveryResult(found) == ~found

\* The lambda of ForEvery2: pred on two strided views of the one stream.
ForEvery2Lambda(pred) ==
  Invoke(pred, <<StridedBitStream(Param(0), 2, 0),
                 StridedBitStream(Param(0), 2, 1)>>)

\* A check that runs f_a on both sides.
checkFirstTwice(f_a, f_b) ==
  ASSIGN_OR_RETURN(f_a, [a \in BOOLEAN |->
  ASSIGN_OR_RETURN(f_a, [b \in BOOLEAN |-> Ret(a = b)])])

\* A check that compares with <= in place of ==.
checkLessEq(f_a, f_b) ==
  ASSIGN_OR_RETURN(f_a, [a \in BOOLEAN |->
  ASSIGN_OR_RETURN(f_b, [b \in BOOLEAN |-> Ret(a => b)])])

\* The lambda `check` of Equal.
check(f_a, f_b) ==
  ASSIGN_OR_RETURN(f_a, [a \in BOOLEAN |->
  ASSIGN_OR_RETURN(f_b, [b \in BOOLEAN |-> Ret(a = b)])])

\* A loop that runs while i <= n.
RECURSIVE EqFromInclusive(_, _, _, _)
EqFromInclusive(i, n, a, b) ==
  IF i <= n
  THEN ASSIGN_OR_RETURN(StreamGet(a, i), [ai \in BOOLEAN |->
       ASSIGN_OR_RETURN(StreamGet(b, i), [bi \in BOOLEAN |->
       IF ai # bi THEN Ret(FALSE) ELSE EqFromInclusive(i + 1, n, a, b)])])
  ELSE Ret(TRUE)

\* Eq(n, a, b), from loop index i on.
RECURSIVE EqFrom(_, _, _, _)
EqFrom(i, n, a, b) ==
  IF i < n
  THEN ASSIGN_OR_RETURN(StreamGet(a, i), [ai \in BOOLEAN |->
       ASSIGN_OR_RETURN(StreamGet(b, i), [bi \in BOOLEAN |->
       IF ai # bi THEN Ret(FALSE) ELSE EqFrom(i + 1, n, a, b)])])
  ELSE Ret(TRUE)

Eq(n, a, b) == EqFrom(0, n, a, b)

\* The two-stream lambda of is_modulus(n) in Modulus.
is_modulus(fn, n) ==
  ASSIGN_OR_RETURN(Eq(n, Param(0), Param(1)), [equal \in BOOLEAN |->
  IF ~equal THEN Ret(TRUE)
  ELSE ASSIGN_OR_RETURN(Invoke(fn, <<Param(0)>>), [fa \in BOOLEAN |->
       ASSIGN_OR_RETURN(Invoke(fn, <<Param(1)>>), [fb \in BOOLEAN |->
       Ret(fa = fb)])])])

\* The calls a thread's script may hold.
CallForSome(p)   == [op |-> "ForSome", p |-> p]
CallForEvery(p)  == [op |-> "ForEvery", p |-> p]
CallForEvery2(p) == [op |-> "ForEvery2", p |-> p]
CallEqual(f_a, f_b) == [op |-> "Equal", f_a |-> f_a, f_b |-> f_b]
CallModulus(fn)  == [op |-> "Modulus", fn |-> fn]

\* The predicate a call hands to ForSome; i is Least's loop variable.
PredicateOf(c, i) ==
  CASE c.op = "ForSome"   -> c.p
    [] c.op = "ForEvery"  -> inverse_pred(c.p)
    [] c.op = "ForEvery2" -> inverse_pred(ForEvery2Lambda(c.p))
    [] c.op = "Equal"     -> inverse_pred(check(c.f_a, c.f_b))
    [] c.op = "Modulus"   -> inverse_pred(ForEvery2Lambda(is_modulus(c.fn, i)))

(***************************************************************************)
(* OnlyOneActiveFind (main.cc 108-124).                                    *)
(***************************************************************************)
\* One flag for the whole process.
FlagOfProcess(t) == "t1"

\* find_is_active_ is thread_local: each thread has its own flag.
FlagOf(t) == t

\* A constructor that never aborts.
CtorNeverAborts(active) == FALSE

\* The constructor aborts when the flag it finds is set.
CtorAborts(active) == active

\* A destructor that leaves the flag as it finds it.
DtorKeepsFlag(active) == active

\* The flag as the destructor leaves it.
DtorFlag(active) == FALSE

(***************************************************************************)
(* ForSome (main.cc 126-198).  A frame holds the locals of one call.       *)
(***************************************************************************)
NoNode == [k |-> "none"]

NewFrame(predicate) ==
  [predicate |-> predicate,
   scratch |-> <<>>,
   indices_of_bits_present |-> EmptyBitSet,
   indices_of_bits_requested |-> EmptyBitSet,
   indices_of_bits_present_vect |-> <<>>,
   current_modulus_too_small |-> FALSE,
   i |-> 0, e |-> 0,
   pc |-> "round",
   node |-> NoNode]

\* A counter step that sets the first off digit it meets without clearing the
\* digits before it.
RECURSIVE IncrementNoReset(_, _)
IncrementNoReset(scratch, vect) ==
  IF vect = <<>> THEN scratch
  ELSE IF ~scratch[Head(vect) + 1]
       THEN [scratch EXCEPT ![Head(vect) + 1] = TRUE]
       ELSE IncrementNoReset(scratch, Tail(vect))

\* Lines 142-149: one step of the binary counter whose digits are vect.
RECURSIVE Increment(_, _)
Increment(scratch, vect) ==
  IF vect = <<>> THEN scratch
  ELSE IF ~scratch[Head(vect) + 1]
       THEN [scratch EXCEPT ![Head(vect) + 1] = TRUE]
       ELSE Increment([scratch EXCEPT ![Head(vect) + 1] = FALSE], Tail(vect))

\* A Get that does not record the position it cannot answer.
GetNotRecording(values, present, requested, idx) ==
  IF Contains(present, idx)
  THEN [has_value |-> TRUE, value |-> values[idx + 1], requested |-> requested]
  ELSE [has_value |-> FALSE, value |-> FALSE, requested |-> requested]

\* LazyBitStream::Get (lines 93-100) on the stream made of values_,
\* indices_present_ and indices_requested_: the optional it returns and the
\* requested set as it leaves it.
Get(values, present, requested, idx) ==
  IF Contains(present, idx)
  THEN [has_value |-> TRUE, value |-> values[idx + 1], requested |-> requested]
  ELSE [has_value |-> FALSE, value |-> FALSE,
        requested |-> Insert(requested, idx)]

\* The predicate run on the frame's LazyBitStream from `node` on: it ends
\* with a value, with nullopt, or at a call of ForSome.  reads collects, for
\* each Get the predicate makes, the position, the requested set before it
\* and what Get made of it.
RECURSIVE Run(_, _, _, _, _)
Run(node, values, present, requested, reads) ==
  IF node.k = "ret"
  THEN [k |-> "value", v |-> node.v, requested |-> requested,
        node |-> NoNode, reads |-> reads]
  ELSE IF node.k = "nullopt"
  THEN [k |-> "nullopt", v |-> FALSE, requested |-> requested,
        node |-> NoNode, reads |-> reads]
  ELSE IF node.k = "call"
  THEN [k |-> "call", v |-> FALSE, requested |-> requested,
        node |-> node, reads |-> reads]
  ELSE The({Run(IF g.has_value THEN (IF g.value THEN node.t ELSE node.f)
                ELSE node.u,
                values, present, g.requested,
                Append(reads, [idx |-> SourceIndex(node.s, node.idx),
                               before |-> requested,
                               has_value |-> g.has_value, value |-> g.value,
                               after |-> g.requested])) :
            g \in {Get(values, present, requested,
                       SourceIndex(node.s, node.idx))}})

\* A merge that starts from the empty set in place of the present set.
RECURSIVE MergeForgetting(_, _)
MergeForgetting(present, req) ==
  IF req = <<>> THEN EmptyBitSet
  ELSE Insert(MergeForgetting(present, Tail(req)), Head(req))

\* Lines 172-177: the requested positions merged into the present set.
RECURSIVE MergeRequested(_, _)
MergeRequested(present, req) ==
  IF req = <<>> THEN present
  ELSE MergeRequested(Insert(present, Head(req)), Tail(req))

\* A new size that is the largest requested position, not one more.
RECURSIVE NewScratchSizeOneShort(_, _)
NewScratchSizeOneShort(new_scratch_size, req) ==
  IF req = <<>> THEN new_scratch_size
  ELSE NewScratchSizeOneShort(IF new_scratch_size >= Head(req)
                              THEN new_scratch_size ELSE Head(req), Tail(req))

\* Lines 172-177: new_scratch_size, the maximum of scratch.size() and of
\* requested_index + 1 over the requested positions.
RECURSIVE NewScratchSize(_, _)
NewScratchSize(new_scratch_size, req) ==
  IF req = <<>> THEN new_scratch_size
  ELSE NewScratchSize(IF new_scratch_size >= Head(req) + 1
                      THEN new_scratch_size ELSE Head(req) + 1, Tail(req))

Top(t) == stack[t][Len(stack[t])]
Below(t) == SubSeq(stack[t], 1, Len(stack[t]) - 1)

\* The first n elements of s, or all of s when it has fewer.
Kept(s, n) == IF n < Len(s) THEN SubSeq(s, 1, n) ELSE s

\* History: the record rec of the trial with loop counter i is added.
Recorded(t, i, rec) ==
  trials' = [trials EXCEPT ![t] = Append(Kept(trials[t], i), rec)]

\* ForSome is entered by thread t with the frames `frames` under it.
ForSomeEnter(t, predicate, frames) ==
  IF CtorAborts(find_is_active[FlagOf(t)])
  THEN /\ aborted' = TRUE
       /\ stack' = [stack EXCEPT ![t] = frames]
       /\ UNCHANGED <<find_is_active, rounds, trials>>
  ELSE /\ aborted' = aborted
       /\ find_is_active' = [find_is_active EXCEPT ![FlagOf(t)] = TRUE]
       /\ stack' = [stack EXCEPT ![t] = Append(frames, NewFrame(predicate))]
       /\ rounds' = [rounds EXCEPT ![t] = Append(rounds[t], <<>>)]
       /\ trials' = [trials EXCEPT ![t] = <<>>]

\* A scan that steps by two.
LeastStepTwo(i) == i + 2

\* Least's `i++`.
LeastStep(i) == i + 1

\* What the caller at script level does with ForSome's result (Least's loop
\* for Modulus: while (!fn(i)) i++; return i).
Deliver(t, found) ==
  LET c == script[t][ip[t]]
  IN  IF c.op = "Modulus"
      THEN IF ~ForEveryResult(found)
           THEN /\ least_i' = [least_i EXCEPT ![t] = LeastStep(least_i[t])]
                /\ UNCHANGED <<ip, out>>
           ELSE /\ out' = [out EXCEPT ![t] = Append(out[t], least_i[t])]
                /\ ip' = [ip EXCEPT ![t] = ip[t] + 1]
                /\ least_i' = [least_i EXCEPT ![t] = 0]
      ELSE /\ out' = [out EXCEPT ![t] =
                        Append(out[t], IF c.op = "ForSome" THEN found
                                       ELSE ForEveryResult(found))]
           /\ ip' = [ip EXCEPT ![t] = ip[t] + 1]
           /\ UNCHANGED least_i

\* `return found;` from the top frame of t: the guard's destructor runs, the
\* frame goes, and the caller goes on with the result.
ForSomeReturn(t, found) ==
  /\ find_is_active' = [find_is_active EXCEPT
                          ![FlagOf(t)] = DtorFlag(find_is_active[FlagOf(t)])]
  /\ UNCHANGED <<aborted, script, halved, rounds>>
  /\ IF Len(stack[t]) = 1
     THEN /\ stack' = [stack EXCEPT ![t] = <<>>]
          /\ Deliver(t, found)
     ELSE LET outer == stack[t][Len(stack[t]) - 1]
              next  == IF found THEN outer.node.t ELSE outer.node.f
          IN  /\ stack' = [stack EXCEPT ![t] =
                   Append(SubSeq(stack[t], 1, Len(stack[t]) - 2),
                          [outer EXCEPT !.node = next])]
              /\ UNCHANGED <<ip, out, least_i>>

\* A top-level call of the script: the combinator builds its predicate and
\* enters ForSome.
Call(t) ==
  /\ ~aborted
  /\ stack[t] = <<>>
  /\ ip[t] <= Len(script[t])
  /\ ForSomeEnter(t, PredicateOf(script[t][ip[t]], least_i[t]), <<>>)
  /\ UNCHANGED <<script, ip, least_i, out, halved>>

\* A for loop whose counter stays where it is.
SameTrial(i) == i

\* The for loop's `i++` (line 141).
NextTrial(i) == i + 1

\* A loop bound without the doubling.
TrialCountNotDoubled(n) == 2 ^ n

\* Line 140: e = 1ull << (1 + indices_of_bits_present.size()).
TrialCount(n) == 2 ^ (1 + n)

\* The loop bound of the engine that runs half the trials: 2^n for TrialCount
\* as it is.
HalvedTrialCount(n) == TrialCount(n) \div 2

\* Lines 133-140: the head of the while loop.
RoundStart(t) ==
  /\ ~aborted
  /\ stack[t] # <<>>
  /\ Top(t).pc = "round"
  /\ LET fr == Top(t)
         n  == size(fr.indices_of_bits_present)
         L  == ForEach(fr.indices_of_bits_present)
     IN  /\ stack' = [stack EXCEPT ![t] = Append(Below(t),
               [fr EXCEPT
                  !.current_modulus_too_small = FALSE,
                  !.indices_of_bits_present_vect = L,
                  !.scratch = AllFalse(Len(fr.scratch)),
                  !.i = 0,
                  !.e = IF ip[t] \in halved THEN HalvedTrialCount(n)
                        ELSE TrialCount(n),
                  !.pc = "trial"])]
         /\ rounds' = [rounds EXCEPT ![t] =
               Append(Kept(rounds[t], Len(rounds[t]) - 1),
                      Append(rounds[t][Len(rounds[t])], L))]
         /\ trials' = [trials EXCEPT ![t] = <<>>]
  /\ UNCHANGED <<find_is_active, aborted, script, ip, least_i, out, halved>>

\* A test that takes any definite result for a true one.
HasValue(k, v) == k = "value"

\* Line 167: result.has_value() && *result.
Satisfied(k, v) == k = "value" /\ v

\* Lines 141-183: one trial (or the rest of one, after a call of ForSome made
\* by the predicate has returned).
Trial(t) ==
  /\ ~aborted
  /\ stack[t] # <<>>
  /\ Top(t).pc = "trial"
  /\ Top(t).node.k # "none" \/ Top(t).i < Top(t).e
  /\ LET fr == Top(t)
         fresh == fr.node.k = "none"
         scratch == IF fresh
                    THEN Increment(fr.scratch, fr.indices_of_bits_present_vect)
                    ELSE fr.scratch
         result == Run(IF fresh THEN fr.predicate ELSE fr.node, scratch,
                       fr.indices_of_bits_present, fr.indices_of_bits_requested,
                       <<>>)
         ran == [fr EXCEPT !.scratch = scratch,
                           !.indices_of_bits_requested = result.requested,
                           !.node = result.node]
         req == ForEach(result.requested)
         rec == [i |-> fr.i,
                 L |-> fr.indices_of_bits_present_vect,
                 present |-> fr.indices_of_bits_present,
                 requested |-> fr.indices_of_bits_requested,
                 scratch |-> scratch,
                 reads |-> result.reads,
                 k |-> result.k, v |-> result.v,
                 after |-> result.requested]
     IN  CASE result.k = "call" ->
                /\ ForSomeEnter(t, result.node.p, Append(Below(t), ran))
                /\ UNCHANGED <<script, ip, least_i, out, halved>>
           [] result.k # "call" /\ Satisfied(result.k, result.v) ->
                /\ ForSomeReturn(t, TRUE)
                /\ Recorded(t, fr.i, rec)
           [] result.k = "value" /\ ~Satisfied(result.k, result.v) ->
                /\ stack' = [stack EXCEPT ![t] =
                               Append(Below(t), [ran EXCEPT !.i = NextTrial(fr.i)])]
                /\ Recorded(t, fr.i, rec)
                /\ UNCHANGED <<find_is_active, aborted, script, ip, least_i, out,
                               halved, rounds>>
           [] result.k = "nullopt" /\ ~Satisfied(result.k, result.v) ->
                /\ stack' = [stack EXCEPT ![t] = Append(Below(t),
                     [ran EXCEPT
                        !.indices_of_bits_present =
                            MergeRequested(fr.indices_of_bits_present, req),
                        !.scratch =
                            Resize(scratch, NewScratchSize(Len(scratch), req)),
                        !.current_modulus_too_small = TRUE,
                        !.indices_of_bits_requested = Clear(result.requested),
                        !.pc = "check"])]
                /\ Recorded(t, fr.i, rec)
                /\ UNCHANGED <<find_is_active, aborted, script, ip, least_i, out,
                               halved, rounds>>

\* Lines 185-196: the for loop is left (all trials done, or by the break)
\* and the round ends: return false, or go round again.
RoundEnd(t) ==
  /\ ~aborted
  /\ stack[t] # <<>>
  /\ LET fr == Top(t)
     IN  /\ fr.pc = "check" \/ (fr.pc = "trial" /\ fr.node.k = "none" /\ fr.i >= fr.e)
         /\ UNCHANGED trials
         /\ IF ~fr.current_modulus_too_small
            THEN ForSomeReturn(t, FALSE)
            ELSE /\ stack' = [stack EXCEPT ![t] =
                                Append(Below(t), [fr EXCEPT !.pc = "round"])]
                 /\ UNCHANGED <<find_is_active, aborted, script, ip, least_i, out,
                                halved, rounds>>

Next == \E t \in Threads : Call(t) \/ RoundStart(t) \/ Trial(t) \/ RoundEnd(t)

(***************************************************************************)
(* The programs checked: every predicate tree within the bounds, and the   *)
(* functions F and G of TestA.                                             *)
(***************************************************************************)
\* Trees of at most n reads of positions 0..MaxPos-1 of the parameters in S.
RECURSIVE Trees(_, _)
Trees(n, S) ==
  {Ret(FALSE), Ret(TRUE)} \cup
  (IF n = 0 THEN {}
   ELSE UNION {{[k |-> "get", s |-> Param(a), idx |-> idx,
                 f |-> l, t |-> r, u |-> Nullopt] :
                  a \in S, idx \in 0..(MaxPos - 1),
                  l \in Trees(m, S), r \in Trees(n - 1 - m, S)} :
               m \in 0..(n - 1)})

F == FuncF(Param(0))
G == FuncG(Param(0))

\* Thread t1 runs a script of S1 and t2 one of S2; the calls at the places
\* in H run with half the trials.
InitOf(S1, S2, H) ==
  /\ halved = H
  /\ rounds = [t \in Threads |-> <<>>]
  /\ trials = [t \in Threads |-> <<>>]
  /\ find_is_active = [t \in Threads |-> FALSE]
  /\ aborted = FALSE
  /\ script \in {[t \in Threads |-> IF t = "t1" THEN s1 ELSE s2] :
                   s1 \in S1, s2 \in S2}
  /\ ip = [t \in Threads |-> 1]
  /\ least_i = [t \in Threads |-> 0]
  /\ out = [t \in Threads |-> <<>>]
  /\ stack = [t \in Threads |-> <<>>]

InitWith(S1, S2) == InitOf(S1, S2, {})

\* One thread that calls ForSome, or ForEvery(p) and then ForSome on p
\* inverted, or Modulus twice, or Equal as TestA does.
Init ==
  InitWith({<<CallForSome(p)>> : p \in Trees(MaxReads, {0})}
           \cup {<<CallForEvery(p), CallForSome(inverse_pred(p))>> :
                   p \in Trees(MaxReads, {0})}
           \cup {<<CallModulus(f), CallModulus(f)>> :
                   f \in Trees(MaxReads - 1, {0})}
           \cup {<<CallEqual(F, F), CallEqual(G, G),
                    CallEqual(F, G), CallEqual(G, F)>>},
           {<<>>})

Spec == Init /\ [][Next]_vars

\* One thread that calls Equal on two functions, then on the two swapped.
InitEqual ==
  InitWith({<<CallEqual(f, g), CallEqual(g, f)>> :
              f \in Trees(MaxReads - 1, {0}) \cup {F, G},
              g \in Trees(MaxReads - 1, {0}) \cup {F, G}},
           {<<>>})

SpecEqual == InitEqual /\ [][Next]_vars

\* One thread that calls ForEvery2 on a predicate of two streams.
InitPairs ==
  InitWith({<<CallForEvery2(p)>> : p \in Trees(MaxReads, {0, 1})}, {<<>>})

SpecPairs == InitPairs /\ [][Next]_vars

\* One thread that calls Modulus.
InitModulus ==
  InitWith({<<CallModulus(f)>> : f \in Trees(MaxReads, {0})}, {<<>>})

SpecModulus == InitModulus /\ [][Next]_vars

\* One thread that calls ForSome.
InitExists ==
  InitWith({<<CallForSome(p)>> : p \in Trees(MaxReads, {0})}, {<<>>})

\* A predicate that runs `pre` and, where that is true, calls ForSome(inner)
\* and returns what it returns.
Nesting(pre, inner) ==
  ASSIGN_OR_RETURN(pre, [v \in BOOLEAN |->
  IF v THEN ForSomeCall(inner) ELSE Ret(FALSE)])

\* One thread that calls ForSome on a predicate that itself calls ForSome.
InitNested ==
  InitWith({<<CallForSome(Nesting(pre, inner))>> :
              pre \in Trees(MaxReads - 1, {0}),
              inner \in Trees(MaxReads - 1, {0})},
           {<<>>})

SpecNested == InitNested /\ [][Next]_vars

\* Two threads, each calling ForSome once, their steps interleaved.
InitThreads ==
  InitWith({<<CallForSome(p)>> : p \in Trees(MaxReads - 1, {0})},
           {<<CallForSome(q)>> :
              q \in {Ret(FALSE), Ret(TRUE), StreamGet(Param(0), 0),
                     inverse_pred(StreamGet(Param(0), 1))}})

SpecThreads == InitThreads /\ [][Next]_vars

\* Trees of at most n reads whose reads may handle an undetermined result
\* themselves: where a read is undetermined the predicate returns nullopt,
\* as ASSIGN_OR_RETURN does, or returns false.
RECURSIVE Handling(_, _)
Handling(n, S) ==
  {Ret(FALSE), Ret(TRUE)} \cup
  (IF n = 0 THEN {}
   ELSE UNION {{[k |-> "get", s |-> Param(a), idx |-> idx,
                 f |-> l, t |-> r, u |-> h] :
                  a \in S, idx \in 0..(MaxPos - 1),
                  l \in Handling(m, S), r \in Handling(n - 1 - m, S),
                  h \in {Nullopt, Ret(FALSE)}} :
               m \in 0..(n - 1)})

\* One thread that calls ForSome on such a predicate, or Equal(F, F).
InitHandling ==
  InitWith({<<CallForSome(p)>> : p \in Handling(MaxReads, {0})}
           \cup {<<CallEqual(F, F)>>},
           {<<>>})

SpecHandling == InitHandling /\ [][Next]_vars

\* One thread that calls ForSome twice on the same predicate: the first call
\* runs the code's 2^(|L|+1) trials a round, the second 2^|L|.
InitHalved ==
  InitOf({<<CallForSome(p), CallForSome(p)>> : p \in Handling(MaxReads, {0})},
         {<<>>}, {2})

SpecHalved == InitHalved /\ [][Next]_vars

\* The views Eq is handed: strided views of the one stream, so that two of
\* them may share positions or not.
Views == {StridedBitStream(Param(0), stride, offset) :
            stride \in 1..2, offset \in 0..1}

\* One thread that calls ForSome, or ForEvery, on Eq(n, a, b).
InitPrefix ==
  InitWith({<<CallForSome(Eq(n, a, b))>> :
              n \in 0..MaxPos, a \in Views, b \in Views}
           \cup {<<CallForEvery(Eq(n, a, b))>> :
                   n \in 0..MaxPos, a \in Views, b \in Views},
           {<<>>})

SpecPrefix == InitPrefix /\ [][Next]_vars

\* The same programs with weak fairness: a thread that can take a step
\* takes one (the loops of ForSome hold no wait).
FairSpec == InitExists /\ [][Next]_vars /\ WF_vars(Next)

(***************************************************************************)
(* What the claims speak of: a predicate run on whole bit sequences.       *)
(* StrictBitStream (main.cc 74-82) is a stream every position of which is  *)
(* decided: Get(idx) is rep_[idx].                                         *)
(***************************************************************************)
\* The (parameter, position) pairs a tree reads.
RECURSIVE ReadsOf(_)
ReadsOf(p) ==
  The({IF q.k \in {"ret", "nullopt"} THEN {}
       ELSE IF q.k = "call" THEN ReadsOf(q.f) \cup ReadsOf(q.t)
       ELSE {<<SourceParam(q.s), SourceIndex(q.s, q.idx)>>}
            \cup ReadsOf(q.f) \cup ReadsOf(q.t) \cup ReadsOf(q.u) :
       q \in {p}})

PositionsOf(p) == {r[2] : r \in ReadsOf(p)}

\* Every choice of n bit sequences, as far as the positions in P go.
Sequences(n, P) == [0..(n - 1) -> [P -> BOOLEAN]]

\* The predicate's result on the strict streams `streams`.
RECURSIVE StrictRun(_, _)
StrictRun(p, streams) ==
  IF p.k = "ret" THEN p.v
  ELSE The({StrictRun(child, streams) :
              child \in {IF streams[SourceParam(p.s)][SourceIndex(p.s, p.idx)]
                         THEN p.t ELSE p.f}})

SomeSequence(p) ==
  The({\E a \in Sequences(1, PositionsOf(q)) : StrictRun(q, a) : q \in {p}})

EverySequence(p) ==
  The({\A a \in Sequences(1, PositionsOf(q)) : StrictRun(q, a) : q \in {p}})

EveryPair(p) ==
  The({\A ab \in Sequences(2, PositionsOf(q)) : StrictRun(q, ab) : q \in {p}})

\* The calls of thread t that have returned, by their place in the script.
Returned(t) == 1..Len(out[t])

(***************************************************************************)
(* C1: for every predicate that reads bits only through its view,          *)
(* propagates undetermined reads and is prefix-determined (every tree      *)
(* is), ForSome returns true iff some assignment of bits makes the         *)
(* predicate true, and false otherwise; so false for always-false.         *)
(***************************************************************************)
C1_ExistsIsCorrect ==
  \A t \in Threads : \A j \in Returned(t) :
    script[t][j].op = "ForSome" =>
      /\ out[t][j] = SomeSequence(script[t][j].p)
      /\ script[t][j].p = Ret(FALSE) => out[t][j] = FALSE

\* A search that had to pin two positions before it found a satisfying
\* assignment has returned true.
C1_Witness ==
  \E t \in Threads :
    /\ Len(out[t]) = 1
    /\ script[t][1].op = "ForSome"
    /\ Cardinality(PositionsOf(script[t][1].p)) = 2
    /\ ~StrictRun(script[t][1].p,
                  [a \in {0} |-> [n \in PositionsOf(script[t][1].p) |-> FALSE]])
    /\ out[t][1] = TRUE

(***************************************************************************)
(* C2: for every prefix-determined predicate a call of ForSome eventually  *)
(* returns: a thread inside ForSome is later outside it (only finitely     *)
(* many rounds end undetermined).                                          *)
(***************************************************************************)
C2_ExistsReturns ==
  \A t \in Threads : (stack[t] # <<>>) ~> (stack[t] = <<>>)

\* A call whose first two rounds ended undetermined has run every trial of
\* its third round with a definite result.
C2_Witness ==
  \E t \in Threads :
    /\ stack[t] # <<>>
    /\ Top(t).pc = "trial"
    /\ size(Top(t).indices_of_bits_present) = 2
    /\ Top(t).i = Top(t).e

(***************************************************************************)
(* C3: ForEvery(p) is the negation of ForSome(q), q being p with its       *)
(* definite results inverted and undetermined passed through; so           *)
(* ForEvery(p) is true iff p is true on every bit sequence.                *)
(***************************************************************************)
C3_ForAllIsNotExists ==
  \A t \in Threads : \A j \in Returned(t) :
    script[t][j].op = "ForEvery" =>
      /\ out[t][j] = EverySequence(script[t][j].p)
      /\ (j + 1) \in Returned(t) /\ script[t][j + 1].op = "ForSome"
           => out[t][j] = ~out[t][j + 1]

\* ForEvery(p) has returned false and ForSome(q) true, for a p that reads.
C3_Witness ==
  \E t \in Threads :
    /\ Len(out[t]) = 2
    /\ script[t][1].op = "ForEvery"
    /\ script[t][1].p.k = "get"
    /\ script[t][2] = CallForSome(inverse_pred(script[t][1].p))
    /\ out[t] = <<FALSE, TRUE>>

(***************************************************************************)
(* C4: Equal(fA, fB) is true iff fA and fB give the same result on every   *)
(* bit sequence; so Equal(f, f) is true, and for F and G of TestA          *)
(* Equal(F,F) and Equal(G,G) are true, Equal(F,G) and Equal(G,F) false.    *)
(***************************************************************************)
SameOnEverySequence(f_a, f_b) ==
  \A a \in Sequences(1, PositionsOf(f_a) \cup PositionsOf(f_b)) :
    StrictRun(f_a, a) = StrictRun(f_b, a)

C4_EqualIsCorrect ==
  \A t \in Threads : \A j \in Returned(t) :
    LET c == script[t][j]
    IN  c.op = "Equal" =>
          /\ out[t][j] = SameOnEverySequence(c.f_a, c.f_b)
          /\ c.f_a = c.f_b => out[t][j] = TRUE
          /\ c.f_a = F /\ c.f_b = G => out[t][j] = FALSE
          /\ c.f_a = G /\ c.f_b = F => out[t][j] = FALSE

\* Equal(F, G) and Equal(G, F) have both returned false.
C4_Witness ==
  \E t \in Threads :
    /\ script[t] = <<CallEqual(F, G), CallEqual(G, F)>>
    /\ out[t] = <<FALSE, FALSE>>

(***************************************************************************)
(* C5: Equal(f, g) and Equal(g, f) return the same value, though the       *)
(* swap changes the order in which positions are read.                     *)
(***************************************************************************)
C5_EqualIsSymmetric ==
  \A t \in Threads : \A j \in Returned(t) :
    /\ script[t][j].op = "Equal"
    /\ (j + 1) \in Returned(t)
    /\ script[t][j + 1] = CallEqual(script[t][j].f_b, script[t][j].f_a)
    => out[t][j] = out[t][j + 1]

\* Equal(f, g) and Equal(g, f) have returned true for two different trees.
C5_Witness ==
  \E t \in Threads :
    /\ Len(out[t]) = 2
    /\ script[t][1].op = "Equal"
    /\ script[t][1].f_a # script[t][1].f_b
    /\ script[t][1].f_a.k = "get" /\ script[t][1].f_b.k = "get"
    /\ script[t][1].f_a.idx # script[t][1].f_b.idx
    /\ out[t] = <<TRUE, TRUE>>

(***************************************************************************)
(* C6: Modulus(f) is minimal.  With m = Modulus(f), every two sequences    *)
(* that agree in what Eq(m, a, b) checks give equal f-results, and no      *)
(* smaller n has that property (so for m > 0 some two sequences that agree *)
(* in what Eq(m-1, a, b) checks give different f-results): the scan stops  *)
(* at the first n whose test holds.                                        *)
(***************************************************************************)
PrefixAgree(n, ab) == StrictRun(Eq(n, Param(0), Param(1)), ab)

FResult(fn, a) == StrictRun(fn, [n \in {0} |-> a])

AgreeingPairsGiveEqualResults(fn, n) ==
  \A ab \in Sequences(2, PositionsOf(fn) \cup 0..(n - 1)) :
    PrefixAgree(n, ab) => FResult(fn, ab[0]) = FResult(fn, ab[1])

C6_ModulusIsMinimal ==
  \A t \in Threads : \A j \in Returned(t) :
    script[t][j].op = "Modulus" =>
      /\ AgreeingPairsGiveEqualResults(script[t][j].fn, out[t][j])
      /\ \A n \in 0..(out[t][j] - 1) :
           ~AgreeingPairsGiveEqualResults(script[t][j].fn, n)

\* Modulus has returned 2 after the tests for 0 and 1 failed.
C6_Witness ==
  \E t \in Threads :
    /\ Len(script[t]) = 1
    /\ script[t][1].op = "Modulus"
    /\ out[t] = <<2>>

(***************************************************************************)
(* C7: ForEvery2(p2) is true iff p2(a, b) is true for every pair of bit    *)
(* sequences: view a reads source position 2*i and view b source position *)
(* 2*i+1, so the two views never read the same source position.           *)
(***************************************************************************)
C7_ForAll2IsCorrect ==
  /\ \A i \in 0..MaxPos :
       /\ SourceIndex(StridedBitStream(Param(0), 2, 0), i) = 2 * i
       /\ SourceIndex(StridedBitStream(Param(0), 2, 1), i) = 2 * i + 1
  /\ \A t \in Threads : \A j \in Returned(t) :
       script[t][j].op = "ForEvery2" =>
         out[t][j] = EveryPair(script[t][j].p)

\* ForEvery2 has returned false for the predicate "a[0] implies b[0]", which
\* reads the same position of both its streams.
C7_Witness ==
  \E t \in Threads :
    /\ Len(script[t]) = 1
    /\ script[t][1].op = "ForEvery2"
    /\ script[t][1].p =
         ASSIGN_OR_RETURN(StreamGet(Param(0), 0), [a \in BOOLEAN |->
         IF ~a THEN Ret(TRUE) ELSE StreamGet(Param(1), 0)])
    /\ out[t] = <<FALSE>>

(***************************************************************************)
(* C8: when ForSome is entered on a thread on which another ForSome call   *)
(* is active (from inside the predicate being evaluated), the process      *)
(* aborts at entry: the nested call gets no frame, so it runs no trial and *)
(* returns no value, and the outer call never returns either.              *)
(***************************************************************************)
\* The predicate of some frame of t stands at a call of ForSome.
AtNestedEntry(t) ==
  \E j \in 1..Len(stack[t]) : stack[t][j].node.k = "call"

C8_NestedEntryAborts ==
  [][\A t \in Threads :
       /\ AtNestedEntry(t)' => aborted' /\ Len(stack'[t]) = 1
       /\ AtNestedEntry(t) => UNCHANGED <<stack, out>>]_vars

\* The process has aborted at a nested entry made in a later round of the
\* outer call, after the outer call had pinned a position.
C8_Witness ==
  \E t \in Threads :
    /\ aborted
    /\ AtNestedEntry(t)
    /\ size(Top(t).indices_of_bits_present) = 1
    /\ out[t] = <<>>

(***************************************************************************)
(* C9: a thread's flag is true exactly while a ForSome call is active on   *)
(* that thread (set on entry, false again after every return), so calls    *)
(* made one after the other never abort.                                   *)
(***************************************************************************)
C9_FlagWhileActive ==
  /\ ~aborted
  /\ \A t \in Threads : find_is_active[t] = (stack[t] # <<>>)

\* The third test of a Modulus scan is running, after two that returned.
C9_Witness ==
  \E t \in Threads :
    /\ ip[t] <= Len(script[t])
    /\ script[t][ip[t]].op = "Modulus"
    /\ least_i[t] = 2
    /\ stack[t] # <<>>
    /\ Top(t).i > 0
    /\ find_is_active[t]

(***************************************************************************)
(* C10: two threads that each run their own ForSome call, their steps      *)
(* interleaved in any way, never make each other abort, and each gets the  *)
(* result it gets alone (that of C1): the flag is per thread and the       *)
(* present set, requested set and buffer belong to one call.               *)
(***************************************************************************)
C10_ThreadsAreIndependent ==
  /\ ~aborted
  /\ \A t \in Threads :
       /\ find_is_active[t] = (stack[t] # <<>>)
       /\ \A j \in Returned(t) : out[t][j] = SomeSequence(script[t][j].p)

\* Both threads are inside ForSome at once, each with trials run, and one
\* of them has pinned a position.
C10_Witness ==
  /\ \A t \in Threads : stack[t] # <<>> /\ Top(t).i > 0
  /\ \E t \in Threads : size(Top(t).indices_of_bits_present) > 0

(***************************************************************************)
(* Trials, as the history holds them.                                      *)
(***************************************************************************)
\* What the predicate returned in the trial recorded as rec.
Outcome(rec) ==
  IF rec.k = "nullopt" THEN "undetermined"
  ELSE IF rec.v THEN "true" ELSE "false"

\* What the view `view` of the trial's stream holds at position i.
ViewAt(rec, view, i) ==
  LET idx == SourceIndex(view, i)
  IN  IF Contains(rec.present, idx) THEN <<rec.scratch[idx + 1]>> ELSE <<>>

\* Positions i..last of two views compared in order: undetermined at the
\* first position where either view is undetermined, false at the first
\* where both are determined and differ, true when there is neither.
RECURSIVE Compared(_, _, _, _, _)
Compared(rec, a, b, i, last) ==
  IF i > last THEN "true"
  ELSE IF ViewAt(rec, a, i) = <<>> \/ ViewAt(rec, b, i) = <<>>
       THEN "undetermined"
  ELSE IF ViewAt(rec, a, i) # ViewAt(rec, b, i) THEN "false"
  ELSE Compared(rec, a, b, i + 1, last)

\* "true" for "false" and back.
Inverse(o) ==
  IF o = "true" THEN "false" ELSE IF o = "false" THEN "true" ELSE o

\* Every trial on record of a call that hands Eq(n, a, b) to ForSome, or
\* to ForEvery, returned what comparing positions 0..last(n) gives.
EqComparesThrough(last(_)) ==
  \A t \in Threads : \A j \in 1..Len(trials[t]) :
    \A n \in 0..MaxPos : \A a \in Views : \A b \in Views :
      /\ script[t][1] = CallForSome(Eq(n, a, b))
           => Outcome(trials[t][j]) = Compared(trials[t][j], a, b, 0, last(n))
      /\ script[t][1] = CallForEvery(Eq(n, a, b))
           => Outcome(trials[t][j]) =
                Inverse(Compared(trials[t][j], a, b, 0, last(n)))

(***************************************************************************)
(* C11 as stated: Eq(n, a, b) compares the positions i with 0 <= i <= n of *)
(* the two views, in order: undetermined as soon as either view is         *)
(* undetermined at a compared position, otherwise true iff the views hold  *)
(* the same bit at all compared positions.                                 *)
(***************************************************************************)
C11_ComparesThroughN == EqComparesThrough(LAMBDA n : n)

(***************************************************************************)
(* C11 amended: Eq(n, a, b) compares the positions i with 0 <= i < n, the  *)
(* first n positions and not position n; the rest as stated.               *)
(***************************************************************************)
C11_ComparesFirstN == EqComparesThrough(LAMBDA n : n - 1)

\* ForSome on Eq(2, a, b), a and b the even and the odd positions of the
\* stream, has returned true on a trial that read positions 0 and 1 of both
\* views and no other, after trials that returned false.
C11_Witness ==
  \E t \in Threads :
    /\ script[t] = <<CallForSome(Eq(2, StridedBitStream(Param(0), 2, 0),
                                       StridedBitStream(Param(0), 2, 1)))>>
    /\ out[t] = <<TRUE>>
    /\ Len(trials[t]) > 1
    /\ Outcome(trials[t][1]) = "false"
    /\ LET rec == trials[t][Len(trials[t])]
       IN  /\ [j \in 1..Len(rec.reads) |-> rec.reads[j].idx] = <<0, 1, 2, 3>>
           /\ ~Contains(rec.present, 4)

\* The place in t's script of the call t is in or, outside any call, of the
\* one it has last returned from (for scripts that hold no Modulus).
LastCall(t) == IF stack[t] = <<>> THEN ip[t] - 1 ELSE ip[t]

\* The bit sequences that hold, at every position present in the trial
\* recorded as rec, the bit the buffer held there.
SequencesOfBuffer(rec, P) ==
  {a \in Sequences(1, P) :
     \A n \in P : Contains(rec.present, n) => a[0][n] = rec.scratch[n + 1]}

(***************************************************************************)
(* C12: as soon as a trial returns a definite true, ForSome returns true   *)
(* and runs no further trial; the buffer of that trial is an assignment on *)
(* which the predicate is true.  A predicate that ignores its argument and *)
(* returns true is evaluated exactly once, with the present set empty.     *)
(***************************************************************************)
C12_StopsAtFirstTrue ==
  \A t \in Threads :
    (/\ trials[t] # <<>>
     /\ LastCall(t) \in DOMAIN script[t]
     /\ script[t][LastCall(t)].op = "ForSome") =>
      LET p    == script[t][LastCall(t)].p
          last == trials[t][Len(trials[t])]
      IN  /\ \A j \in 1..(Len(trials[t]) - 1) : Outcome(trials[t][j]) # "true"
          /\ Outcome(last) = "true" =>
                /\ stack[t] = <<>>
                /\ out[t][LastCall(t)] = TRUE
                /\ \A a \in SequencesOfBuffer(last, PositionsOf(p)) :
                     StrictRun(p, a)
          /\ stack[t] = <<>> /\ out[t][LastCall(t)] = TRUE =>
                Outcome(last) = "true"
          /\ p = Ret(TRUE) =>
                /\ Len(trials[t]) = 1
                /\ rounds[t][Len(rounds[t])] = <<<<>>>>
                /\ ForEach(last.present) = <<>>
                /\ stack[t] = <<>>

\* ForSome has returned true on the third trial of a round over two present
\* positions, the first two trials of the round having returned false.
C12_Witness ==
  \E t \in Threads :
    /\ Len(script[t]) = 1
    /\ script[t][1].op = "ForSome"
    /\ out[t] = <<TRUE>>
    /\ Len(trials[t]) = 3
    /\ size(trials[t][3].present) = 2
    /\ trials[t][3].scratch = <<TRUE, TRUE>>

\* The positions a BitSet contains.
Members(bs) == {n \in 0..(Len(bs.rep_) - 1) : Contains(bs, n)}

\* Thread t runs a trial in this step, which the history then ends with.
RunsTrial(t) == Len(trials'[t]) = Len(trials[t]) + 1

(***************************************************************************)
(* C13: within one ForSome call the present set never loses a position.    *)
(* It changes only when a trial returns undetermined, and then it gains    *)
(* every position of the requested set, at least one of which was not      *)
(* present before; a trial with a definite result leaves it as it was.     *)
(***************************************************************************)
C13_PresentSetGrows ==
  [][\A t \in Threads :
       (stack[t] # <<>> /\ Len(stack'[t]) = Len(stack[t])) =>
         LET before == Members(Top(t).indices_of_bits_present)
             after  == Members(Top(t).indices_of_bits_present')
             rec    == trials'[t][Len(trials'[t])]
         IN  /\ before \subseteq after
             /\ after # before => RunsTrial(t) /\ Outcome(rec) = "undetermined"
             /\ RunsTrial(t) /\ Outcome(rec) = "undetermined" =>
                  /\ after = before \cup Members(rec.after)
                  /\ Members(rec.after) \ before # {}
             /\ RunsTrial(t) /\ Outcome(rec) # "undetermined" =>
                  after = before]_vars

\* A call whose present set has grown twice: the trial that ended its second
\* round was undetermined and took the present set from one position to two.
C13_Witness ==
  \E t \in Threads :
    /\ stack[t] # <<>>
    /\ Top(t).pc = "check"
    /\ Len(rounds[t][Len(rounds[t])]) = 2
    /\ size(trials[t][Len(trials[t])].present) = 1
    /\ Cardinality(Members(Top(t).indices_of_bits_present)) = 2

\* The assignments over the snapshot L that the trials on record of t's
\* round have presented.
Tried(t) ==
  {[n \in {rec.L[j] : j \in 1..Len(rec.L)} |-> rec.scratch[n + 1]] :
     rec \in {trials[t][j] : j \in 1..Len(trials[t])}}

\* Every assignment over the snapshot of the top frame of t.
Combinations(t) ==
  [{Top(t).indices_of_bits_present_vect[j] :
      j \in 1..Len(Top(t).indices_of_bits_present_vect)} -> BOOLEAN]

\* The present set of t's call has just grown: an undetermined trial has
\* been merged and the round is being left.
HasGrown(t) == stack[t] # <<>> /\ Top(t).pc = "check"

\* Every trial of t's round has run, none of them undetermined or true.
RoundComplete(t) ==
  /\ stack[t] # <<>>
  /\ Top(t).pc = "trial"
  /\ Top(t).node.k = "none"
  /\ Top(t).i >= Top(t).e

(***************************************************************************)
(* C14 as stated: in every round all 2^|L| combinations of values over the *)
(* positions of the present set are tried before the present set grows     *)
(* again.                                                                  *)
(***************************************************************************)
C14_AllTriedBeforeGrowth ==
  \A t \in Threads : HasGrown(t) => Tried(t) = Combinations(t)

(***************************************************************************)
(* C14 amended: in every round in which no trial is undetermined (and none *)
(* true) all 2^|L| combinations are tried.  A round in which a trial is    *)
(* undetermined is abandoned at that trial, the first such, and the        *)
(* present set grows at once, after only the trials up to that one: each   *)
(* a combination not tried before in the round, as long as any is left.    *)
(***************************************************************************)
C14_AllTriedUnlessAbandoned ==
  \A t \in Threads :
    /\ RoundComplete(t) => Tried(t) = Combinations(t)
    /\ HasGrown(t) =>
         /\ Len(trials[t]) = Top(t).i + 1
         /\ Outcome(trials[t][Len(trials[t])]) = "undetermined"
         /\ \A j \in 1..(Len(trials[t]) - 1) : Outcome(trials[t][j]) = "false"
         /\ Tried(t) \subseteq Combinations(t)
         /\ \/ Cardinality(Tried(t)) = Len(trials[t])
            \/ Tried(t) = Combinations(t)

\* A round over one present position has been abandoned at its first trial:
\* the present set has grown with one of the two combinations tried.
C14_Witness ==
  \E t \in Threads :
    /\ HasGrown(t)
    /\ Len(Top(t).indices_of_bits_present_vect) = 1
    /\ Len(trials[t]) = 1
    /\ Cardinality(Tried(t)) = 1
    /\ Cardinality(Combinations(t)) = 2

\* What ForSome returned to the call c that returned o.
EngineResult(c, o) == IF c.op = "ForSome" THEN o ELSE ~o

\* The assignment over L that a binary counter with digit order L (L[1] the
\* lowest digit) holds at value j.
CounterValue(L, j) ==
  [n \in {L[k] : k \in 1..Len(L)} |->
     LET k == CHOOSE k \in 1..Len(L) : L[k] = n
     IN  (j \div (2 ^ (k - 1))) % 2 = 1]

\* The assignment over its snapshot that the trial recorded as rec presented.
Presented(rec) ==
  [n \in {rec.L[k] : k \in 1..Len(rec.L)} |-> rec.scratch[n + 1]]

(***************************************************************************)
(* C15: ForSome returns false only at the end of a round in which no trial *)
(* was undetermined.  In that round the counter walk over the snapshot L   *)
(* ran 2^(|L|+1) trials, trial number j (from 1) presenting the counter    *)
(* value j: every one of the 2^|L| assignments over L twice, all-false     *)
(* first at trial 2^|L|; and each trial returned a definite false.         *)
(***************************************************************************)
C15_FalseOnlyAfterFullRound ==
  \A t \in Threads :
    (/\ stack[t] = <<>>
     /\ LastCall(t) \in DOMAIN script[t]
     /\ script[t][LastCall(t)].op \in {"ForSome", "ForEvery", "Equal"}
     /\ ~EngineResult(script[t][LastCall(t)], out[t][LastCall(t)])) =>
      LET tr == trials[t]
          L  == rounds[t][Len(rounds[t])][Len(rounds[t][Len(rounds[t])])]
          n  == Len(L)
      IN  /\ Len(tr) = 2 ^ (n + 1)
          /\ \A j \in 1..Len(tr) :
               /\ Outcome(tr[j]) = "false"
               /\ tr[j].L = L
               /\ L = ForEach(tr[j].present)
               /\ Presented(tr[j]) = CounterValue(L, j)
          /\ \A c \in [{L[k] : k \in 1..n} -> BOOLEAN] :
               Cardinality({j \in 1..Len(tr) : Presented(tr[j]) = c}) = 2
          /\ \A j \in 1..Len(tr) :
               (\A m \in DOMAIN Presented(tr[j]) : ~Presented(tr[j])[m])
                 => j >= 2 ^ n
          /\ \A m \in DOMAIN Presented(tr[2 ^ n]) : ~Presented(tr[2 ^ n])[m]

\* ForSome has returned false after a round of eight trials over two
\* present positions.
C15_Witness ==
  \E t \in Threads :
    /\ Len(script[t]) = 1
    /\ script[t][1].op = "ForSome"
    /\ out[t] = <<FALSE>>
    /\ Len(trials[t]) = 8
    /\ trials[t][8].L = <<0, 1>>

\* Sequence s is the beginning of sequence r.
IsPrefix(s, r) == Len(s) <= Len(r) /\ s = SubSeq(r, 1, Len(s))

(***************************************************************************)
(* C16: the engine that runs 2^|L| trials a round in place of 2^(|L|+1),   *)
(* all else the same, returns what the code's engine returns for the same  *)
(* predicate, and its present set grows through the same values: the       *)
(* snapshots of its rounds are those of the code's rounds, in order.       *)
(***************************************************************************)
C16_HalvedIsEquivalent ==
  \A t \in Threads :
    /\ Len(rounds[t]) = 2 => IsPrefix(rounds[t][2], rounds[t][1])
    /\ Len(out[t]) = 2 =>
         /\ out[t][1] = out[t][2]
         /\ rounds[t][1] = rounds[t][2]

\* Both engines have returned false after three rounds, the last one over
\* two present positions: eight trials in the code's engine, four in the
\* other.
C16_Witness ==
  \E t \in Threads :
    /\ out[t] = <<FALSE, FALSE>>
    /\ rounds[t][1] = <<<<>>, <<0>>, <<0, 1>>>>
    /\ rounds[t][2] = rounds[t][1]
    /\ Len(trials[t]) = 4

(***************************************************************************)
(* C17: LazyBitStream::Get(i) returns the buffer's bit at i and leaves the *)
(* requested set as it is when i is in the present set; when i is not, it  *)
(* inserts i into the requested set and returns undetermined.  It returns  *)
(* undetermined in no other case, and the present set and the buffer are   *)
(* after the reads of a trial what they were before them.                  *)
(***************************************************************************)
C17_GetFrame ==
  \A t \in Threads : \A j \in 1..Len(trials[t]) :
    LET rec == trials[t][j]
    IN  /\ \A k \in 1..Len(rec.reads) :
             LET r == rec.reads[k]
             IN  /\ r.has_value = Contains(rec.present, r.idx)
                 /\ r.has_value =>
                      /\ r.idx < Len(rec.scratch)
                      /\ r.value = rec.scratch[r.idx + 1]
                      /\ r.after = r.before
                 /\ ~r.has_value =>
                      /\ Members(r.after) = Members(r.before) \cup {r.idx}
                      /\ Contains(r.after, r.idx)
                 /\ r.before = IF k = 1 THEN rec.requested
                                ELSE rec.reads[k - 1].after
        /\ rec.after = IF rec.reads = <<>> THEN rec.requested
                        ELSE rec.reads[Len(rec.reads)].after
        /\ (j = Len(trials[t]) /\ stack[t] # <<>> /\ Top(t).pc = "trial") =>
             /\ Top(t).scratch = rec.scratch
             /\ Top(t).indices_of_bits_present = rec.present

\* A trial has read a present position, got its bit, and then read an
\* absent one, which the requested set holds from then on.
C17_Witness ==
  \E t \in Threads : \E j \in 1..Len(trials[t]) :
    LET rec == trials[t][j]
    IN  /\ Len(rec.reads) = 2
        /\ rec.reads[1].has_value /\ rec.reads[1].value
        /\ ~rec.reads[2].has_value
        /\ ~Contains(rec.reads[2].before, rec.reads[2].idx)
        /\ Contains(rec.reads[2].after, rec.reads[2].idx)

\* The buffer is one longer than the largest present position (empty when
\* none is present) and holds false wherever the position is not present.
BufferFits(scratch, present) ==
  /\ Len(scratch) = IF Members(present) = {} THEN 0
                    ELSE 1 + CHOOSE m \in Members(present) :
                               \A n \in Members(present) : n <= m
  /\ \A n \in 0..(Len(scratch) - 1) :
       ~Contains(present, n) => ~scratch[n + 1]

(***************************************************************************)
(* C18: at every trial the buffer's length is max(present set) + 1, or 0   *)
(* when the present set is empty, so every read of a present position is   *)
(* inside the buffer; and every buffer position that is not in the present *)
(* set holds false.                                                        *)
(***************************************************************************)
C18_BufferLength ==
  \A t \in Threads :
    /\ \A j \in 1..Len(trials[t]) :
         /\ BufferFits(trials[t][j].scratch, trials[t][j].present)
         /\ \A k \in 1..Len(trials[t][j].reads) :
              trials[t][j].reads[k].has_value =>
                trials[t][j].reads[k].idx < Len(trials[t][j].scratch)
    /\ (stack[t] # <<>> /\ Top(t).pc = "trial") =>
         BufferFits(Top(t).scratch, Top(t).indices_of_bits_present)

\* A trial has run with position 1 present and position 0 not: the buffer
\* is two long, false at 0, and the trial has read the true bit at 1.
C18_Witness ==
  \E t \in Threads : \E j \in 1..Len(trials[t]) :
    /\ Members(trials[t][j].present) = {1}
    /\ trials[t][j].scratch = <<FALSE, TRUE>>
    /\ Len(trials[t][j].reads) > 0
    /\ trials[t][j].reads[1].idx = 1
    /\ trials[t][j].reads[1].value

\* The positions the trial recorded as rec read and found absent.
Absent(rec) ==
  {rec.reads[k].idx : k \in {k \in 1..Len(rec.reads) : ~rec.reads[k].has_value}}

\* The predicate returns nullopt wherever a read of its is undetermined.
RECURSIVE Propagating(_)
Propagating(p) ==
  The({IF q.k \in {"ret", "nullopt"} THEN TRUE
       ELSE IF q.k = "call" THEN Propagating(q.f) /\ Propagating(q.t)
       ELSE q.u = Nullopt /\ Propagating(q.f) /\ Propagating(q.t) : q \in {p}})

BitSets ==
  UNION {UNION {{stack[t][j].indices_of_bits_present,
                 stack[t][j].indices_of_bits_requested} :
                  j \in 1..Len(stack[t])} : t \in Threads}

\* Sequence s lists the numbers of S, each once, in increasing order.
ListsInOrder(s, S) ==
  /\ {s[j] : j \in 1..Len(s)} = S
  /\ \A j \in 1..(Len(s) - 1) : s[j] < s[j + 1]

(***************************************************************************)
(* C20: after any Inserts and Clears size() is the number of positions for *)
(* which Contains is true and ForEach visits exactly those positions in    *)
(* increasing order; so a set that holds no position (as after Clear) has  *)
(* size() = 0.                                                             *)
(***************************************************************************)
C20_SizeCountsMembers ==
  \A bs \in BitSets :
    /\ size(bs) = Cardinality(Members(bs))
    /\ ListsInOrder(ForEach(bs), Members(bs))
    /\ Members(bs) = {} => size(bs) = 0

====
